---- MODULE Spec2Model ----
(***************************************************************************)
(* create_splash.py: create_splash_screen() draws a gradient, circles, a   *)
(* logo, two curls, a scissors accent and captions on one RGB canvas and   *)
(* saves it at four sizes.                                                 *)
(*                                                                         *)
(* The canvas is followed at a fixed set of pixels (Samples); every draw   *)
(* call repaints the samples it covers.  Text glyph pixels depend on the   *)
(* font, so captions are kept as the list img.text.  Float coordinates are *)
(* kept in 1/1000 pixel; the sine table is in 1/10000.                     *)
(***************************************************************************)
EXTENDS Integers, Sequences, FiniteSets, TLC

VARIABLES
    width, height,   \* locals of line 6
    pc,              \* statement about to run; "done" / "aborted" at the end
    y, rgb,          \* gradient loop variable and the (r, g, b) of the last row
    i,               \* index of the running for-loop (circles, glow, dots)
    img,             \* the canvas
    curl_points, curl2_points,
    log,             \* draw calls issued so far in this invocation
    caught,          \* 0, or the number (1..5) of the draw in the try block that raised
    raised,          \* "" or the statement whose exception left the function
    out,             \* lines printed by this invocation
    disk,            \* the files of the working directory
    disk0,           \* the working directory when this invocation started
    run,             \* number of this invocation
    prev             \* what the previous invocation left: status, caught, log, img

vars == <<width, height, pc, y, rgb, i, img, curl_points, curl2_points, log,
          caught, raised, out, disk, disk0, run, prev>>

(***************************************************************************)
(* Bounds of the model                                                     *)
(***************************************************************************)
MaxRuns == 2
MaxHeight == 300
MaxWidth == 2

Widths == (1..MaxWidth) \cup {1284}
Heights == (1..MaxHeight) \cup {2778}

(***************************************************************************)
(* Colours and the gradient (lines 10-19)                                  *)
(***************************************************************************)
StartColour == <<46, 7, 63>>
EndColour == <<168, 85, 247>>
White == <<255, 255, 255>>
Black == <<0, 0, 0>>

\* y / height is a double, and int() truncates the double.  For every height
\* up to 3000 the result is the exact floor, except where y/height = 15/26:
\* there 78 * ratio evaluates to just under the integer 45.
FloatSlip(d, yy, h) == d = 78 /\ 26 * yy = 15 * h

\* ratio = y // height: the integer-division slip
InterpFloorDiv(s, e, yy, h) == s + (e - s) * (yy \div h)

\* int(s + (e - s) * ratio) with ratio = y / height
Interp(s, e, yy, h) ==
    LET d == e - s
        exact == s + (d * yy) \div h
    IN  IF FloatSlip(d, yy, h) THEN exact - 1 ELSE exact

RowColour(yy, h) ==
    << Interp(StartColour[1], EndColour[1], yy, h),
       Interp(StartColour[2], EndColour[2], yy, h),
       Interp(StartColour[3], EndColour[3], yy, h) >>

(***************************************************************************)
(* Geometry (lines 22-34, 52, 77-78, 87-97)                                *)
(***************************************************************************)
circles ==
    << <<200, 300, 60, <<255, 255, 255, 25>> >>,
       <<1000, 400, 45, <<255, 255, 255, 35>> >>,
       <<150, 2200, 75, <<255, 255, 255, 20>> >>,
       <<1100, 2000, 50, <<255, 255, 255, 30>> >> >>

center_x == width \div 2
center_y == height \div 2 - 200
logo_radius == 200
curl_center_x == center_x
curl_center_y == center_y - 30
scissors_x == center_x + 80
scissors_y == center_y + 80
title_y == center_y + 300
subtitle_y == title_y + 60
dot_y == subtitle_y + 100
x_offsets == <<-45, 0, 45>>

\* the pixels of the 1284 x 2778 canvas the model follows
Samples ==
    { <<0, 0>>, <<1283, 2777>>, <<10, 1389>>,
      <<200, 300>>, <<1000, 400>>, <<150, 2200>>, <<1100, 2000>>,
      <<642, 1189>>, <<642, 1000>>, <<500, 1189>>,
      <<642, 975>>, <<642, 959>>,
      <<642, 1159>>, <<702, 1169>>,
      <<722, 1269>>, <<757, 1269>>,
      <<597, 1649>>, <<642, 1649>>, <<687, 1649>> }

InCanvas(p, w, h) == p[1] < w /\ p[2] < h

\* Image.new('RGB', size): black, nothing resampled, the whole picture
NewImage(w, h) ==
    [size |-> <<w, h>>, px |-> [p \in Samples |-> Black], text |-> <<>>,
     gen |-> 0, box |-> <<0, 0, w, h>>]

\* ImageDraw.Draw(img) on an 'RGB' image writes the colour's three channels;
\* a fourth (alpha) component is accepted and not blended.
Ink(fill) == SubSeq(fill, 1, 3)

\* every ellipse of this program has a square bounding box
InEllipse(p, b) ==
    LET dx == 2 * p[1] - (b[1] + b[3])
        dy == 2 * p[2] - (b[2] + b[4])
        a == b[3] - b[1]
    IN  dx * dx + dy * dy <= a * a

Crosses(p, a, b) ==
    /\ (a[2] > p[2]) # (b[2] > p[2])
    /\ LET lhs == (p[1] - a[1]) * (b[2] - a[2])
           rhs == (b[1] - a[1]) * (p[2] - a[2])
       IN  IF b[2] > a[2] THEN lhs < rhs ELSE lhs > rhs

\* polygon() truncates each vertex to a whole pixel, then fills even-odd
Pixel(pt) == <<pt[1] \div 1000, pt[2] \div 1000>>

InPolygon(p, pts) ==
    LET n == Len(pts)
        hits == {k \in 1..n : Crosses(p, Pixel(pts[k]), Pixel(pts[(k % n) + 1]))}
    IN  Cardinality(hits) % 2 = 1

Box(cx, cy, r) == <<cx - r, cy - r, cx + r, cy + r>>

Call(layer, op, xy, fill, text) ==
    [layer |-> layer, op |-> op, xy |-> xy, fill |-> fill, text |-> text]

Ellipse(im, b, fill) ==
    [im EXCEPT !.px = [p \in Samples |->
        IF InEllipse(p, b) THEN Ink(fill) ELSE @[p]]]

Polygon(im, pts, fill) ==
    [im EXCEPT !.px = [p \in Samples |->
        IF InPolygon(p, pts) THEN Ink(fill) ELSE @[p]]]

Text(im, xy, s, fill) ==
    [im EXCEPT !.text = Append(@, [xy |-> xy, s |-> s, fill |-> Ink(fill)])]

EllipseCall(layer, b, fill) ==
    Call(layer, "ellipse", << <<b[1], b[2]>>, <<b[3], b[4]>> >>, fill, "")

(***************************************************************************)
(* The curls (lines 54-74)                                                 *)
(***************************************************************************)
SinTable ==
    << 0, 175, 349, 523, 698, 872, 1045, 1219, 1392, 1564, 1736, 1908, 2079,
       2250, 2419, 2588, 2756, 2924, 3090, 3256, 3420, 3584, 3746, 3907, 4067,
       4226, 4384, 4540, 4695, 4848, 5000, 5150, 5299, 5446, 5592, 5736, 5878,
       6018, 6157, 6293, 6428, 6561, 6691, 6820, 6947, 7071, 7193, 7314, 7431,
       7547, 7660, 7771, 7880, 7986, 8090, 8192, 8290, 8387, 8480, 8572, 8660,
       8746, 8829, 8910, 8988, 9063, 9135, 9205, 9272, 9336, 9397, 9455, 9511,
       9563, 9613, 9659, 9703, 9744, 9781, 9816, 9848, 9877, 9903, 9925, 9945,
       9962, 9976, 9986, 9994, 9998, 10000 >>

\* math.sin(math.radians(deg)) * 10000, deg a whole number of degrees
Sin(deg) ==
    LET d == deg % 360
    IN  IF d <= 90 THEN SinTable[d + 1]
        ELSE IF d <= 180 THEN SinTable[180 - d + 1]
        ELSE IF d <= 270 THEN 0 - SinTable[d - 180 + 1]
        ELSE 0 - SinTable[360 - d + 1]

Cos(deg) == Sin(deg + 90)

RECURSIVE range(_, _, _)
range(start, stop, step) ==
    IF start >= stop THEN <<>> ELSE <<start>> \o range(start + step, stop, step)

\* range(0, 270, 135): a step too coarse for a polygon
curl_angles_coarse == range(0, 270, 5 * 27)

curl_angles == range(0, 270, 5)

curl2_angles == range(30, 200, 8)

\* radius = base + amp * sin(radians(angle * k)), k = twok / 2;
\* the point (cx + radius * cos(angle), cy + radius * sin(angle)), in 1/1000 px
CurlPoint(cx, cy, base, amp, twok, angle) ==
    LET radius == base * 1000 + (amp * 1000 * Sin((angle * twok) \div 2)) \div 10000
    IN  << cx * 1000 + (radius * Cos(angle)) \div 10000,
           cy * 1000 + (radius * Sin(angle)) \div 10000 >>

CurlPoints(angles, cx, cy, base, amp, twok) ==
    [k \in 1..Len(angles) |-> CurlPoint(cx, cy, base, amp, twok, angles[k])]

(***************************************************************************)
(* Files                                                                   *)
(***************************************************************************)
Outputs == <<"splash.png", "adaptive-icon.png", "icon.png", "notification-icon.png">>
FileNames == {Outputs[k] : k \in 1..4}
\* another file of the same directory, which the script never names
OtherFiles == {"favicon.png"}
AllFiles == FileNames \cup OtherFiles

Absent == [exists |-> FALSE, whole |-> FALSE, images |-> <<>>]
\* what a failed save can leave of a file it had opened for writing
Truncated == [exists |-> TRUE, whole |-> FALSE, images |-> <<>>]
Unrelated == [exists |-> TRUE, whole |-> TRUE, images |-> <<>>]

\* a save that opened the file for appending
AppendFile(old, im) ==
    [exists |-> TRUE, whole |-> TRUE, images |-> old.images \o <<im>>]

\* Image.save(name, 'PNG') opens the file "wb": the old content is dropped
WriteFile(old, im) ==
    [exists |-> TRUE, whole |-> TRUE, images |-> <<im>>]

\* Image.resize(size, LANCZOS): the whole picture (no box), resampled once more
Resize(im, size) == [im EXCEPT !.size = size, !.gen = @ + 1]

adaptive_img == Resize(img, <<1024, 1024>>)

\* icon_img = adaptive_img.resize(...): a copy of a copy
icon_img_chained == Resize(adaptive_img, <<512, 512>>)

icon_img == Resize(img, <<512, 512>>)

notification_img == Resize(img, <<96, 96>>)

(***************************************************************************)
(* Statement order (lines 10-125)                                          *)
(***************************************************************************)
\* the logo disk moved below the curls
StepsDiskLate ==
    << "background", "circles", "glow", "curl", "curl2", "disk", "scissors",
       "title", "subtitle", "dots",
       "save_splash", "save_adaptive", "save_icon", "save_notification", "done" >>

Steps ==
    << "background", "circles", "glow", "disk", "curl", "curl2", "scissors",
       "title", "subtitle", "dots",
       "save_splash", "save_adaptive", "save_icon", "save_notification", "done" >>

StepNo(p) == CHOOSE k \in 1..Len(Steps) : Steps[k] = p
Succ(p) == Steps[StepNo(p) + 1]

TryBlock == {"title", "subtitle", "dots"}
SaveSteps == {"save_splash", "save_adaptive", "save_icon", "save_notification"}
\* the statement after the try/except
AfterTry == "save_splash"

(***************************************************************************)
(* Initial states                                                          *)
(***************************************************************************)
NoRun == [status |-> "none", caught |-> 0, log |-> <<>>, img |-> NewImage(0, 0)]

Locals(w, h) ==
    /\ width = w
    /\ height = h
    /\ pc = "background"
    /\ y = 0
    /\ rgb = Black
    /\ i = 0
    /\ img = NewImage(w, h)
    /\ curl_points = <<>>
    /\ curl2_points = <<>>
    /\ log = <<>>
    /\ caught = 0
    /\ raised = ""
    /\ out = <<>>

Init ==
    /\ Locals(1284, 2778)
    /\ disk = [f \in AllFiles |-> IF f \in FileNames THEN Absent ELSE Unrelated]
    /\ disk0 = disk
    /\ run = 1
    /\ prev = NoRun

\* the gradient loop alone, for any canvas size
InitGradient ==
    /\ \E w \in Widths, h \in Heights : Locals(w, h)
    /\ disk = [f \in AllFiles |-> IF f \in FileNames THEN Absent ELSE Unrelated]
    /\ disk0 = disk
    /\ run = 1
    /\ prev = NoRun

(***************************************************************************)
(* Drawing (lines 10-82)                                                   *)
(***************************************************************************)
\* one iteration of "for y in range(height)": the whole row gets one colour
GradientRow ==
    /\ pc = "background"
    /\ y < height
    /\ rgb' = RowColour(y, height)
    /\ img' = [img EXCEPT !.px = [p \in Samples |->
                  IF p[2] = y /\ InCanvas(p, width, height) THEN rgb' ELSE @[p]]]
    /\ y' = y + 1
    /\ UNCHANGED <<width, height, pc, i, curl_points, curl2_points, log,
                   caught, raised, out, disk, disk0, run, prev>>

\* the whole loop of lines 11-19
DrawBackground ==
    /\ pc = "background"
    /\ y = 0
    /\ y' = height
    /\ rgb' = RowColour(height - 1, height)
    /\ img' = [img EXCEPT !.px = [p \in Samples |->
                  IF InCanvas(p, width, height) THEN RowColour(p[2], height) ELSE @[p]]]
    /\ log' = Append(log, Call("background", "point",
                               << <<0, 0>>, <<width - 1, height - 1>> >>,
                               StartColour, ""))
    /\ pc' = Succ(pc)
    /\ UNCHANGED <<width, height, i, curl_points, curl2_points,
                   caught, raised, out, disk, disk0, run, prev>>

\* one iteration of "for x, y, r, color in circles"
DrawCircle ==
    /\ pc = "circles"
    /\ LET c == circles[i + 1]
           b == Box(c[1], c[2], c[3])
       IN  /\ img' = Ellipse(img, b, c[4])
           /\ log' = Append(log, EllipseCall("circles", b, c[4]))
    /\ IF i + 1 < Len(circles)
          THEN i' = i + 1 /\ pc' = pc
          ELSE i' = 0 /\ pc' = Succ(pc)
    /\ UNCHANGED <<width, height, y, rgb, curl_points, curl2_points,
                   caught, raised, out, disk, disk0, run, prev>>

\* one iteration of "for i in range(3)" (lines 37-43)
DrawGlow ==
    /\ pc = "glow"
    /\ LET alpha == 50 - i * 15
           radius == logo_radius + i * 20
           b == Box(center_x, center_y, radius)
       IN  /\ img' = Ellipse(img, b, <<255, 255, 255, alpha>>)
           /\ log' = Append(log, EllipseCall("glow", b, <<255, 255, 255, alpha>>))
    /\ IF i + 1 < 3
          THEN i' = i + 1 /\ pc' = pc
          ELSE i' = 0 /\ pc' = Succ(pc)
    /\ UNCHANGED <<width, height, y, rgb, curl_points, curl2_points,
                   caught, raised, out, disk, disk0, run, prev>>

DrawLogoDisk ==
    /\ pc = "disk"
    /\ LET b == Box(center_x, center_y, logo_radius)
       IN  /\ img' = Ellipse(img, b, White)
           /\ log' = Append(log, EllipseCall("disk", b, White))
    /\ pc' = Succ(pc)
    /\ UNCHANGED <<width, height, y, rgb, i, curl_points, curl2_points,
                   caught, raised, out, disk, disk0, run, prev>>

\* lines 54-63
DrawCurl ==
    /\ pc = "curl"
    /\ curl_points' = CurlPoints(curl_angles, curl_center_x, curl_center_y, 80, 30, 4)
    /\ IF Len(curl_points') > 2
          THEN /\ img' = Polygon(img, curl_points', <<114, 9, 183>>)
               /\ log' = Append(log, Call("curl", "polygon", curl_points',
                                          <<114, 9, 183>>, ""))
          ELSE UNCHANGED <<img, log>>
    /\ pc' = Succ(pc)
    /\ UNCHANGED <<width, height, y, rgb, i, curl2_points,
                   caught, raised, out, disk, disk0, run, prev>>

\* lines 65-74
DrawCurl2 ==
    /\ pc = "curl2"
    /\ curl2_points' = CurlPoints(curl2_angles, curl_center_x + 60,
                                  curl_center_y - 20, 50, 20, 3)
    /\ IF Len(curl2_points') > 2
          THEN /\ img' = Polygon(img, curl2_points', <<168, 85, 247>>)
               /\ log' = Append(log, Call("curl2", "polygon", curl2_points',
                                          <<168, 85, 247>>, ""))
          ELSE UNCHANGED <<img, log>>
    /\ pc' = Succ(pc)
    /\ UNCHANGED <<width, height, y, rgb, i, curl_points,
                   caught, raised, out, disk, disk0, run, prev>>

\* lines 76-82
DrawScissors ==
    /\ pc = "scissors"
    /\ LET b1 == <<scissors_x - 15, scissors_y - 15, scissors_x + 15, scissors_y + 15>>
           b2 == <<scissors_x + 20, scissors_y - 15, scissors_x + 50, scissors_y + 15>>
           coral == <<255, 107, 107>>
       IN  /\ img' = Ellipse(Ellipse(img, b1, coral), b2, coral)
           /\ log' = log \o <<EllipseCall("scissors", b1, coral),
                              EllipseCall("scissors", b2, coral)>>
    /\ pc' = Succ(pc)
    /\ UNCHANGED <<width, height, y, rgb, i, curl_points, curl2_points,
                   caught, raised, out, disk, disk0, run, prev>>

(***************************************************************************)
(* The try block (lines 84-106)                                            *)
(***************************************************************************)
\* an alpha that follows the invocation count, as a clock-driven animation would
DotAlphaAnimated(k) == 150 + (((k + run) * 30) % 105)

\* line 99
DotAlpha(k) == 150 + ((k * 30) % 105)

\* the draws of the try block, numbered 1..5 in program order
DrawNo == IF pc = "title" THEN 1 ELSE IF pc = "subtitle" THEN 2 ELSE 3 + i

DrawTitle ==
    /\ pc = "title"
    /\ img' = Text(img, <<center_x, title_y>>, "CurlMap", White)
    /\ log' = Append(log, Call("text", "text", << <<center_x, title_y>> >>,
                               White, "CurlMap"))
    /\ pc' = Succ(pc)
    /\ UNCHANGED <<width, height, y, rgb, i, curl_points, curl2_points,
                   caught, raised, out, disk, disk0, run, prev>>

DrawSubtitle ==
    /\ pc = "subtitle"
    /\ img' = Text(img, <<center_x, subtitle_y>>, "Hair Stylist Platform", White)
    /\ log' = Append(log, Call("text", "text", << <<center_x, subtitle_y>> >>,
                               White, "Hair Stylist Platform"))
    /\ pc' = Succ(pc)
    /\ UNCHANGED <<width, height, y, rgb, i, curl_points, curl2_points,
                   caught, raised, out, disk, disk0, run, prev>>

\* one iteration of "for i, x_offset in enumerate([-45, 0, 45])"
DrawDot ==
    /\ pc = "dots"
    /\ LET x_offset == x_offsets[i + 1]
           fill == <<255, 255, 255, DotAlpha(i)>>
           b == <<center_x + x_offset - 8, dot_y - 8,
                  center_x + x_offset + 8, dot_y + 8>>
       IN  /\ img' = Ellipse(img, b, fill)
           /\ log' = Append(log, EllipseCall("text", b, fill))
    /\ IF i + 1 < Len(x_offsets)
          THEN i' = i + 1 /\ pc' = pc
          ELSE i' = 0 /\ pc' = Succ(pc)
    /\ UNCHANGED <<width, height, y, rgb, curl_points, curl2_points,
                   caught, raised, out, disk, disk0, run, prev>>

\* no except clause: the exception leaves the function
TextRaiseUncaught ==
    /\ pc \in TryBlock
    /\ raised' = pc
    /\ pc' = "aborted"
    /\ UNCHANGED <<width, height, y, rgb, i, img, curl_points, curl2_points,
                   log, caught, out, disk, disk0, run, prev>>

\* a try around each draw: the failing draw is skipped, the next one still runs
TextRaisePerDraw ==
    /\ pc \in TryBlock
    /\ caught' = DrawNo
    /\ out' = Append(out, "Text rendering failed")
    /\ IF pc = "dots" /\ i + 1 < Len(x_offsets)
          THEN i' = i + 1 /\ pc' = pc
          ELSE i' = 0 /\ pc' = Succ(pc)
    /\ UNCHANGED <<width, height, y, rgb, img, curl_points, curl2_points,
                   log, raised, disk, disk0, run, prev>>

\* a draw of the try block raises: "except Exception as e: print(...)",
\* then the statement after the try
TextRaise ==
    /\ pc \in TryBlock
    /\ caught' = DrawNo
    /\ out' = Append(out, "Text rendering failed")
    /\ pc' = AfterTry
    /\ UNCHANGED <<width, height, y, rgb, i, img, curl_points, curl2_points,
                   log, raised, disk, disk0, run, prev>>

(***************************************************************************)
(* Saving (lines 108-125)                                                  *)
(***************************************************************************)
FileOf(p) == Outputs[StepNo(p) - StepNo("save_splash") + 1]

SaveSplash ==
    /\ pc = "save_splash"
    /\ disk' = [disk EXCEPT !["splash.png"] = WriteFile(@, img)]
    /\ out' = Append(out, "Splash screen created as splash.png")
    /\ pc' = Succ(pc)
    /\ UNCHANGED <<width, height, y, rgb, i, img, curl_points, curl2_points,
                   log, caught, raised, disk0, run, prev>>

SaveAdaptive ==
    /\ pc = "save_adaptive"
    /\ disk' = [disk EXCEPT !["adaptive-icon.png"] = WriteFile(@, adaptive_img)]
    /\ pc' = Succ(pc)
    /\ UNCHANGED <<width, height, y, rgb, i, img, curl_points, curl2_points,
                   log, caught, raised, out, disk0, run, prev>>

SaveIcon ==
    /\ pc = "save_icon"
    /\ disk' = [disk EXCEPT !["icon.png"] = WriteFile(@, icon_img)]
    /\ pc' = Succ(pc)
    /\ UNCHANGED <<width, height, y, rgb, i, img, curl_points, curl2_points,
                   log, caught, raised, out, disk0, run, prev>>

SaveNotification ==
    /\ pc = "save_notification"
    /\ disk' = [disk EXCEPT !["notification-icon.png"] = WriteFile(@, notification_img)]
    /\ out' = Append(out, "All splash screen assets created successfully!")
    /\ pc' = Succ(pc)
    /\ UNCHANGED <<width, height, y, rgb, i, img, curl_points, curl2_points,
                   log, caught, raised, disk0, run, prev>>

\* the error of a save is swallowed and the next statement runs
SaveRaiseSwallowed ==
    /\ pc \in SaveSteps
    /\ \E left \in {disk[FileOf(pc)], Truncated} :
          disk' = [disk EXCEPT ![FileOf(pc)] = left]
    /\ raised' = pc
    /\ pc' = Succ(pc)
    /\ UNCHANGED <<width, height, y, rgb, i, img, curl_points, curl2_points,
                   log, caught, out, disk0, run, prev>>

\* a resize or a save raises (no memory, no permission, disk full): nothing
\* catches it.  The file is as it was, or was opened and is left cut short.
SaveRaise ==
    /\ pc \in SaveSteps
    /\ \E left \in {disk[FileOf(pc)], Truncated} :
          disk' = [disk EXCEPT ![FileOf(pc)] = left]
    /\ raised' = pc
    /\ pc' = "aborted"
    /\ UNCHANGED <<width, height, y, rgb, i, img, curl_points, curl2_points,
                   log, caught, out, disk0, run, prev>>

(***************************************************************************)
(* Running the script again in the same directory (lines 127-128)          *)
(***************************************************************************)
Restart ==
    /\ pc \in {"done", "aborted"}
    /\ run < MaxRuns
    /\ run' = run + 1
    /\ prev' = [status |-> pc, caught |-> caught, log |-> log, img |-> img]
    /\ disk0' = disk
    /\ pc' = "background"
    /\ y' = 0
    /\ rgb' = Black
    /\ i' = 0
    /\ img' = NewImage(width, height)
    /\ curl_points' = <<>>
    /\ curl2_points' = <<>>
    /\ log' = <<>>
    /\ caught' = 0
    /\ raised' = ""
    /\ out' = <<>>
    /\ UNCHANGED <<width, height, disk>>

Next ==
    \/ DrawBackground
    \/ DrawCircle
    \/ DrawGlow
    \/ DrawLogoDisk
    \/ DrawCurl
    \/ DrawCurl2
    \/ DrawScissors
    \/ DrawTitle
    \/ DrawSubtitle
    \/ DrawDot
    \/ TextRaise
    \/ SaveSplash
    \/ SaveAdaptive
    \/ SaveIcon
    \/ SaveNotification
    \/ SaveRaise
    \/ Restart

Spec == Init /\ [][Next]_vars

NextGradient == GradientRow

SpecGradient == InitGradient /\ [][NextGradient]_vars

\* the same program with a file system that accepts every save; the script
\* runs straight through, so a step that can run does run
NextSavesOk ==
    \/ DrawBackground
    \/ DrawCircle
    \/ DrawGlow
    \/ DrawLogoDisk
    \/ DrawCurl
    \/ DrawCurl2
    \/ DrawScissors
    \/ DrawTitle
    \/ DrawSubtitle
    \/ DrawDot
    \/ TextRaise
    \/ SaveSplash
    \/ SaveAdaptive
    \/ SaveIcon
    \/ SaveNotification
    \/ Restart

SpecSavesOk == Init /\ [][NextSavesOk]_vars /\ WF_vars(NextSavesOk)

(***************************************************************************)
(* Properties                                                              *)
(***************************************************************************)
Saving == pc \in SaveSteps \cup {"done", "aborted"}
Past(p) == pc = "aborted" \/ StepNo(pc) > StepNo(p)
IsPrefix(a, b) == Len(a) <= Len(b) /\ \A k \in 1..Len(a) : a[k] = b[k]
Min(a, b) == IF a < b THEN a ELSE b
WithinOne(a, b) == \A c \in 1..3 : a[c] - b[c] \in -1..1

Sizes == << <<1284, 2778>>, <<1024, 1024>>, <<512, 512>>, <<96, 96>> >>

\* file k holds one complete image: the canvas as it is now, whole, at the
\* size of the table, resampled once (not at all for splash.png)
HoldsCanvas(k) ==
    LET f == disk[Outputs[k]]
    IN  /\ f.exists /\ f.whole
        /\ Len(f.images) = 1
        /\ f.images[1].size = Sizes[k]
        /\ f.images[1].gen = (IF k = 1 THEN 0 ELSE 1)
        /\ f.images[1].box = <<0, 0, width, height>>
        /\ f.images[1].px = img.px
        /\ f.images[1].text = img.text

\* C1: a failing draw of the try block never leaves the function, and once
\* it is caught the run goes on to finish with all four files written at
\* their sizes (the file system accepting the saves).
C1_TextFailureStillCompletes ==
    /\ [](raised \notin TryBlock)
    /\ (caught # 0) ~> (caught # 0 /\ pc = "done" /\ \A k \in 1..4 : HoldsCanvas(k))

C1_Witness ==
    /\ caught = 1 /\ pc = "done" /\ img.text = <<>>
    /\ \A k \in 1..4 : HoldsCanvas(k)

\* C2: when a save raises, the run is aborted with that error; the files
\* after the failing one are as the run found them, the files before it hold
\* what this run saved, and the success line is not printed.
C2_SaveFailureAborts ==
    raised # "" =>
        /\ pc = "aborted"
        /\ raised \in SaveSteps
        /\ "All splash screen assets created successfully!" \notin
               {out[k] : k \in 1..Len(out)}
        /\ \A k \in 1..4 :
              /\ Outputs[k] = FileOf(raised) =>
                    disk[Outputs[k]] \in {disk0[Outputs[k]], Truncated}
              /\ StepNo(raised) < StepNo("save_splash") + k - 1 =>
                    disk[Outputs[k]] = disk0[Outputs[k]]
              /\ StepNo(raised) > StepNo("save_splash") + k - 1 => HoldsCanvas(k)

C2_Witness ==
    /\ raised = "save_icon" /\ pc = "aborted" /\ run = 2
    /\ caught # prev.caught
    /\ HoldsCanvas(1) /\ HoldsCanvas(2)
    /\ disk["notification-icon.png"] = disk0["notification-icon.png"]
    /\ disk["notification-icon.png"].whole

\* C3: a finished run leaves the four named files, each one complete image
\* of its size made from the whole full-resolution canvas in one resampling,
\* and leaves every other file as it found it.
C3_FourFiles ==
    pc = "done" =>
        /\ \A k \in 1..4 : HoldsCanvas(k)
        /\ \A f \in OtherFiles : disk[f] = disk0[f]

C3_Witness ==
    /\ pc = "done" /\ caught = 0 /\ run = 1
    /\ disk["icon.png"].images[1].size = <<512, 512>>

C4_Ends(minHeight) ==
    /\ y = 1 => rgb = StartColour
    /\ y >= 1 => img.px[<<0, 0>>] = StartColour
    /\ (y = height /\ height >= minHeight) => WithinOne(rgb, EndColour)

C4_Monotone == (y' = y + 1 /\ y >= 1) => \A c \in 1..3 : rgb'[c] >= rgb[c]

C5_CurlPolygonsDrawn ==
    /\ Past("curl") =>
          /\ Len(curl_points) >= 3
          /\ \E k \in 1..Len(log) :
                log[k] = Call("curl", "polygon", curl_points, <<114, 9, 183>>, "")
    /\ Past("curl2") =>
          /\ Len(curl2_points) >= 3
          /\ \E k \in 1..Len(log) :
                log[k] = Call("curl2", "polygon", curl2_points, <<168, 85, 247>>, "")

C5_Witness ==
    /\ pc = "scissors"
    /\ Len(curl_points) = 54 /\ Len(curl2_points) = 22
    /\ img.px[<<642, 1159>>] = <<114, 9, 183>>
    /\ img.px[<<702, 1169>>] = <<168, 85, 247>>

\* C6: a finished run leaves in each of the four files this run's image
\* alone, whatever the files held before; a second finished run that drew
\* the same canvas leaves the directory as the first left it.
C6_Overwrites ==
    pc = "done" =>
        /\ \A k \in 1..4 : HoldsCanvas(k)
        /\ (run > 1 /\ prev.status = "done" /\ prev.img = img) => disk = disk0

C6_Witness ==
    /\ pc = "done" /\ run = 2 /\ prev.status = "done" /\ prev.img = img
    /\ disk = disk0

\* C7: two invocations issue the same draw calls (shape, coordinates, colour)
\* as far as both get; with the same outcome of the try block they end with
\* the same canvas, and when both finish, with the same four files.
C7_Deterministic ==
    run > 1 =>
        /\ \A k \in 1..Min(Len(log), Len(prev.log)) : log[k] = prev.log[k]
        /\ (Saving /\ caught = prev.caught) => (log = prev.log /\ img = prev.img)
        /\ (pc = "done" /\ prev.status = "done" /\ caught = prev.caught) =>
              \A k \in 1..4 : disk[Outputs[k]] = disk0[Outputs[k]]

C7_Witness ==
    /\ run = 2 /\ pc = "done" /\ prev.status = "done"
    /\ caught = 0 /\ prev.caught = 0 /\ Len(log) = 18
    /\ disk0["favicon.png"] = disk["favicon.png"]

LayerOrder ==
    << "background", "circles", "circles", "circles", "circles",
       "glow", "glow", "glow", "disk", "curl", "curl2", "scissors", "scissors",
       "text", "text", "text", "text", "text" >>

Layers == [k \in 1..Len(log) |-> log[k].layer]

InLogoDisk(p) ==
    (p[1] - center_x) * (p[1] - center_x) + (p[2] - center_y) * (p[2] - center_y)
        <= logo_radius * logo_radius

\* C8: draw calls come in the order background, ambient circles, glow, disk,
\* curl, curl2, scissors, text; when the curls are about to be drawn every
\* pixel within 200 of the logo centre is white; nothing is saved or printed
\* before the drawing is over (all 18 calls, or 13 plus the text calls before
\* the one that raised), and the files are saved in the order of the table.
C8_LayerOrder ==
    /\ IsPrefix(Layers, LayerOrder)
    /\ pc = "curl" =>
          /\ Len(log) = 9 /\ log[9].fill = White
          /\ \A p \in Samples : InLogoDisk(p) => img.px[p] = White
    /\ ~Saving => (disk = disk0 /\ out = <<>>)
    /\ Saving =>
          Len(log) = (IF caught = 0 THEN 18 ELSE 13 + caught - 1)
    /\ pc \in SaveSteps =>
          \A k \in 1..4 :
              IF StepNo(pc) > StepNo("save_splash") + k - 1
              THEN HoldsCanvas(k)
              ELSE disk[Outputs[k]] = disk0[Outputs[k]]

C8_Witness ==
    /\ pc = "save_icon" /\ caught = 0
    /\ img.px[<<642, 1000>>] = White
    /\ img.px[<<642, 1189>>] = <<114, 9, 183>>
    /\ img.px[<<702, 1169>>] = <<168, 85, 247>>
    /\ img.px[<<722, 1269>>] = <<255, 107, 107>>

\* what an 'RGBA' draw would have written: fill over bg at alpha/255
Blend(bg, fill) ==
    IF Len(fill) = 3 THEN fill
    ELSE [c \in 1..3 |-> (fill[c] * fill[4] + bg[c] * (255 - fill[4])) \div 255]

\* C9: after the four ambient circles, the pixel at the centre of each is
\* the gradient colour of its row blended toward white by the circle's
\* alpha, and is not opaque white.
C9_AmbientBlended ==
    (pc = "glow" /\ i = 0) =>
        \A k \in 1..4 :
            LET p == <<circles[k][1], circles[k][2]>>
            IN  /\ img.px[p] = Blend(RowColour(p[2], height), circles[k][4])
                /\ img.px[p] # White

TextCalls ==
    << Call("text", "text", << <<center_x, title_y>> >>, White, "CurlMap"),
       Call("text", "text", << <<center_x, subtitle_y>> >>, White,
            "Hair Stylist Platform"),
       EllipseCall("text", Box(center_x - 45, dot_y, 8), <<255, 255, 255, 150>>),
       EllipseCall("text", Box(center_x, dot_y, 8), <<255, 255, 255, 180>>),
       EllipseCall("text", Box(center_x + 45, dot_y, 8), <<255, 255, 255, 210>>) >>

\* C10: after the try block the canvas holds exactly the draws of the block
\* that came before the one that raised (all five when none raised), in
\* order; the failure, of a caption or of a dot, is printed and not raised.
C10_TextPrefix ==
    Saving =>
        LET n == IF caught = 0 THEN 5 ELSE caught - 1
        IN  /\ caught \in 0..5
            /\ raised \notin TryBlock
            /\ Len(log) = 13 + n
            /\ \A k \in 1..n : log[13 + k] = TextCalls[k]
            /\ Len(img.text) = Min(n, 2)
            /\ \A k \in 1..Min(n, 2) : img.text[k].s = TextCalls[k].text
            /\ \A d \in 1..3 :
                  LET p == <<center_x + x_offsets[d], dot_y>>
                  IN  img.px[p] = (IF n >= 2 + d THEN White
                                   ELSE RowColour(dot_y, height))
            /\ (caught # 0) =
                  ("Text rendering failed" \in {out[k] : k \in 1..Len(out)})

C10_Witness ==
    /\ pc = "done" /\ caught = 4
    /\ Len(img.text) = 2
    /\ img.px[<<597, 1649>>] = White
    /\ img.px[<<642, 1649>>] # White
    /\ \A k \in 1..4 : HoldsCanvas(k)

====
